---- MODULE Spec2Model ----
(***************************************************************************)
(* Model of scripts/compliance_batch_runner.py: the rule evaluators, the   *)
(* rule registry, load_rules, run_rules and main.                          *)
(*                                                                         *)
(* Representation                                                          *)
(*  - A Python float is a fixed-point integer counted in units of          *)
(*    10^-(RoundDigits+1), one decimal finer than round(x, 4) keeps, so    *)
(*    that rounding is a real operation.  70.0 is 70 * Scale.              *)
(*  - A dynamically typed cell (a float, NaN, None or a str) is a tagged   *)
(*    record: F(n), NaN, None, Str(s).                                     *)
(*  - A str that the code inspects (strip, upper, float) is a sequence of  *)
(*    one-character strings.                                               *)
(***************************************************************************)
EXTENDS Integers, Sequences, FiniteSets, TLC

\* ---------------------------------------------------------------------
\* Bounds of the model
\* ---------------------------------------------------------------------

\* number of securities of the catalogue the positions table may hold
NumSecurities == 5

\* number of securities of the one large positions table, large enough for
\* a fund of more than five positions
LargeSize == 7

\* longest manifest
MaxRules == 2

\* number of execute_sql calls that may raise during one run
MaxFaults == 1

\* ---------------------------------------------------------------------
\* Numbers
\* ---------------------------------------------------------------------

\* round(x, 4): the number of decimals every evaluator keeps
RoundDigits == 4

Scale == 10 ^ (RoundDigits + 1)

\* n percent of NAV
Pct(n) == n * Scale

\* a count of n positions
Count(n) == n * Scale

F(n) == [t |-> "float", v |-> n]

NaN == [t |-> "nan"]

None == [t |-> "None"]

Str(s) == [t |-> "str", s |-> s]

IsFloat(x) == x.t = "float"

\* Python round(x, nd) and the ':.2f' format: round half to even
PyRound(x, nd) ==
    LET q  == 10 ^ (RoundDigits + 1 - nd)
        lo == (x \div q) * q
        r  == x - lo
    IN  IF 2 * r < q THEN lo
        ELSE IF 2 * r > q THEN lo + q
        ELSE IF (lo \div q) % 2 = 0 THEN lo ELSE lo + q

\* a slip: < for <=
FloatLe_strict(x, th) == IsFloat(th) /\ x < th.v

\* x <= threshold, x >= threshold, x > threshold for a float x and a
\* threshold that may be NaN: every comparison with NaN is False
FloatLe(x, th) == IsFloat(th) /\ x <= th.v

\* a slip: <= for >=
FloatGe_inverted(x, th) == IsFloat(th) /\ x <= th.v

FloatGe(x, th) == IsFloat(th) /\ x >= th.v

\* a slip: >= for >
FloatGt_orequal(x, th) == IsFloat(th) /\ x >= th.v

FloatGt(x, th) == IsFloat(th) /\ x > th.v

\* ---------------------------------------------------------------------
\* Strings
\* ---------------------------------------------------------------------

LowerLetters == <<"a", "b", "c", "e", "f", "l", "n", "o", "r", "s", "t", "u">>

UpperLetters == <<"A", "B", "C", "E", "F", "L", "N", "O", "R", "S", "T", "U">>

UpperChar(c) ==
    IF \E i \in DOMAIN LowerLetters : LowerLetters[i] = c
    THEN UpperLetters[CHOOSE i \in DOMAIN LowerLetters : LowerLetters[i] = c]
    ELSE c

LowerChar(c) ==
    IF \E i \in DOMAIN UpperLetters : UpperLetters[i] = c
    THEN LowerLetters[CHOOSE i \in DOMAIN UpperLetters : UpperLetters[i] = c]
    ELSE c

\* str.upper()
PyUpper(s) == [i \in DOMAIN s |-> UpperChar(s[i])]

PyLower(s) == [i \in DOMAIN s |-> LowerChar(s[i])]

RECURSIVE LStrip(_)
LStrip(s) == IF s # <<>> /\ Head(s) = " " THEN LStrip(Tail(s)) ELSE s

RECURSIVE RStrip(_)
RStrip(s) ==
    IF s # <<>> /\ s[Len(s)] = " " THEN RStrip(SubSeq(s, 1, Len(s) - 1)) ELSE s

\* str.strip()
PyStrip(s) == RStrip(LStrip(s))

\* str(x) of a cell: a str is itself, float('nan') prints as nan
PyStr(x) ==
    CASE x.t = "str"  -> x.s
      [] x.t = "nan"  -> <<"n", "a", "n">>
      [] x.t = "None" -> <<"N", "o", "n", "e">>

\* truth value of a cell: only the empty str and None are falsy
Truthy(x) ==
    CASE x.t = "str"  -> x.s # <<>>
      [] x.t = "nan"  -> TRUE
      [] x.t = "None" -> FALSE

Digits == <<"0", "1", "2", "3", "4", "5", "6", "7", "8", "9">>

IsDigit(c) == \E i \in DOMAIN Digits : Digits[i] = c

DigitVal(c) == (CHOOSE i \in DOMAIN Digits : Digits[i] = c) - 1

RECURSIVE DigitsVal(_)
DigitsVal(s) ==
    IF s = <<>> THEN 0 ELSE 10 * DigitsVal(SubSeq(s, 1, Len(s) - 1)) + DigitVal(s[Len(s)])

AllDigits(s) == \A i \in DOMAIN s : IsDigit(s[i])

\* digits with an optional fraction, the point being at the places dots
ParseDecimal(sign, mag, dots) ==
    LET ip == IF dots = {} THEN mag
              ELSE SubSeq(mag, 1, (CHOOSE i \in dots : TRUE) - 1)
        fp == IF dots = {} THEN <<>>
              ELSE SubSeq(mag, (CHOOSE i \in dots : TRUE) + 1, Len(mag))
    IN  IF /\ Cardinality(dots) <= 1
           /\ AllDigits(ip) /\ AllDigits(fp)
           /\ Len(ip) + Len(fp) > 0
           /\ Len(fp) <= RoundDigits + 1
        THEN F(sign * (DigitsVal(ip) * Scale
                       + DigitsVal(fp) * 10 ^ (RoundDigits + 1 - Len(fp))))
        ELSE [t |-> "ValueError"]

\* what follows the sign: nan in any casing, or a decimal
ParseMagnitude(sign, mag) ==
    IF PyLower(mag) = <<"n", "a", "n">> THEN NaN
    ELSE ParseDecimal(sign, mag, {i \in DOMAIN mag : mag[i] = "."})

\* the stripped text: an optional sign, then the magnitude
ParseSigned(body) ==
    LET signed == body # <<>> /\ Head(body) \in {"+", "-"}
    IN  ParseMagnitude(IF signed /\ Head(body) = "-" THEN -1 ELSE 1,
                       IF signed THEN Tail(body) ELSE body)

\* float(s) of a str: optional blanks, optional sign, then either nan (any
\* casing) or digits with an optional fraction; anything else raises
\* ValueError.  Fractions are read to RoundDigits + 1 places.
PyFloat(s) == ParseSigned(PyStrip(s))

\* ---------------------------------------------------------------------
\* The positions table of portfolio.db
\* ---------------------------------------------------------------------

Position(rowid, isin, name, fund, class, country, sector, weight, status) ==
    [rowid |-> rowid, isin |-> isin, security_name |-> name, fund_id |-> fund,
     asset_class |-> class, country |-> country, sector |-> sector,
     weight_pct |-> weight, compliance_status |-> status]

\* The securities a positions table is drawn from.  Securities 1..3 are a
\* fund of 70% Equity, 20% Bond, 10% Cash; 4 and 7 have weights that
\* round(x, 4) changes; 5 belongs to another fund; 2 and 6 tie on weight.
Catalogue ==
    << Position(1, "US01", "Acme Corp", 1, "Equity", "US", "Technology", Pct(70), "Clear"),
       Position(2, "US02", "Treasury 10Y", 1, "Bond", "US", "Government", Pct(20), "Review"),
       Position(3, "US03", "USD Cash", 1, "Cash", "US", "Cash", Pct(10), "Review"),
       Position(4, "CH04", "Gold Trust", 1, "Commodity", "CH", "Materials", Pct(20) + 4, "Restricted"),
       Position(5, "JP05", "Kaito KK", 2, "Equity", "JP", "Industrials", Pct(70), "Clear"),
       Position(6, "FR06", "Loire SA", 1, "Equity", "FR", "Technology", Pct(20), "Review"),
       Position(7, "US07", "Index ETF", 1, "ETF", "US", "Funds", Pct(30) + 4, "Restricted"),
       Position(8, "JP08", "JPY Cash", 1, "Cash", "JP", "Cash", Pct(2), "Clear"),
       Position(9, "DE09", "Rhein AG", 1, "Equity", "DE", "Energy", Pct(5), "Restricted") >>

Securities == {Catalogue[i] : i \in 1 .. NumSecurities}

\* the positions tables a run may meet: every table of the first
\* NumSecurities securities, and one of the first LargeSize
Portfolios == SUBSET Securities \cup {{Catalogue[i] : i \in 1 .. LargeSize}}

\* the fund a run is asked about (--fund-id): the fund of the first security
Funds == {Catalogue[1].fund_id}

\* WHERE clauses of the generated SQL, after "fund_id = {fund_id}"
AllPositions == [col |-> "*", vals |-> {}]

AssetClassIn(vals) == [col |-> "asset_class", vals |-> vals]

StatusIs(val) == [col |-> "compliance_status", vals |-> {val}]

Matches(p, where) ==
    CASE where.col = "*" -> TRUE
      [] where.col = "asset_class" -> p.asset_class \in where.vals
      [] where.col = "compliance_status" -> p.compliance_status \in where.vals

\* a slip: ORDER BY weight_pct without DESC
Before_ascending(a, b, tie) ==
    \/ a.key < b.key
    \/ a.key = b.key /\ (IF tie = "asc" THEN a.rowid < b.rowid ELSE a.rowid > b.rowid)

\* ORDER BY ... DESC.  SQL leaves the order of equal keys open: tie is the
\* order the engine happens to produce, by rowid ascending or descending.
Before(a, b, tie) ==
    \/ a.key > b.key
    \/ a.key = b.key /\ (IF tie = "asc" THEN a.rowid < b.rowid ELSE a.rowid > b.rowid)

RECURSIVE OrderByDesc(_, _)
OrderByDesc(S, tie) ==
    IF S = {} THEN <<>>
    ELSE LET first == CHOOSE a \in S : \A b \in S \ {a} : Before(a, b, tie)
         IN  <<first>> \o OrderByDesc(S \ {first}, tie)

\* LIMIT n
Limit(seq, n) == SubSeq(seq, 1, IF Len(seq) < n THEN Len(seq) ELSE n)

RECURSIVE SumWeight(_)
SumWeight(S) ==
    IF S = {} THEN 0
    ELSE LET p == CHOOSE p \in S : TRUE IN p.weight_pct + SumWeight(S \ {p})

RECURSIVE SeqSum(_)
SeqSum(seq) == IF seq = <<>> THEN 0 ELSE Head(seq).key + SeqSum(Tail(seq))

GroupKey(p, dim) == IF dim = "country" THEN p.country ELSE p.sector

\* The generated queries.  sum/count/rows/group are the four shapes; limit
\* is 0 when the query has no LIMIT.
SqlSum(where, limit) == [agg |-> "SUM", where |-> where, limit |-> limit, dim |-> ""]

SqlCount(where) == [agg |-> "COUNT", where |-> where, limit |-> 0, dim |-> ""]

SqlRows(where, limit) == [agg |-> "ROWS", where |-> where, limit |-> limit, dim |-> ""]

SqlGroup(dim) == [agg |-> "GROUP", where |-> AllPositions, limit |-> 0, dim |-> dim]

\* a slip: the WHERE clause without "fund_id = {fund_id}"
Selected_anyfund(positions, fund, where) == {p \in positions : Matches(p, where)}

\* FROM positions WHERE fund_id = {fund_id} AND ...
Selected(positions, fund, where) ==
    {p \in positions : p.fund_id = fund /\ Matches(p, where)}

\* the selected rows with their sort key
Keyed(rows) == {[key |-> p.weight_pct, rowid |-> p.rowid, p |-> p] : p \in rows}

\* a slip: the LIMIT left out of the breach query
Limited_unbounded(ordered, limit) == ordered

\* the rows left by an optional LIMIT
Limited(ordered, limit) == IF limit > 0 THEN Limit(ordered, limit) ELSE ordered

\* GROUP BY dim: the rows of one group, and one row per group with its sum
GroupOf(rows, dim, g) == {p \in rows : GroupKey(p, dim) = g}

FirstRowid(S) == CHOOSE r \in {p.rowid : p \in S} : \A p \in S : r <= p.rowid

Summed(rows, dim) ==
    {[key   |-> SumWeight(GroupOf(rows, dim, g)),
      rowid |-> FirstRowid(GroupOf(rows, dim, g)),
      g     |-> g] : g \in {GroupKey(p, dim) : p \in rows}}

\* the DataFrame of query q, given its rows in order and its groups in order
Frame(q, taken, bygroup) ==
    CASE q.agg = "SUM" ->
           << [value |-> IF taken = <<>> THEN None ELSE F(SeqSum(taken))] >>
      [] q.agg = "COUNT" ->
           << [value |-> F(Len(taken) * Scale)] >>
      [] q.agg = "ROWS" ->
           [i \in DOMAIN taken |->
               [identifier  |-> taken[i].p.isin,
                description |-> taken[i].p.security_name,
                value       |-> taken[i].p.weight_pct]]
      [] q.agg = "GROUP" ->
           [i \in DOMAIN bygroup |->
               [identifier |-> bygroup[i].g, value |-> bygroup[i].key]]

\* execute_sql on a healthy connection: the DataFrame, as a sequence of rows
execute_sql(positions, fund, q, tie) ==
    Frame(q,
          Limited(OrderByDesc(Keyed(Selected(positions, fund, q.where)), tie), q.limit),
          OrderByDesc(Summed(Selected(positions, fund, q.where), q.dim), tie))

\* the text of the exception a failing execute_sql raises
ExcText == "database is locked"

\* ---------------------------------------------------------------------
\* Helper functions
\* ---------------------------------------------------------------------

\* a message is its fixed words and the values formatted into it
Message(text, args) == [text |-> text, args |-> args]

\* a slip: the error result without its "error" flag
_error_unflagged(rule_text, threshold, unit, exc) ==
    [rule |-> rule_text, passed |-> FALSE, error |-> FALSE,
     metric_value |-> None, threshold |-> threshold, unit |-> unit,
     breaches |-> <<>>,
     message |-> Message(<<"Error", "during", "rule", "check:", exc>>, <<>>)]

_error(rule_text, threshold, unit, exc) ==
    [rule |-> rule_text, passed |-> FALSE, error |-> TRUE,
     metric_value |-> None, threshold |-> threshold, unit |-> unit,
     breaches |-> <<>>,
     message |-> Message(<<"Error", "during", "rule", "check:", exc>>, <<>>)]

\* a slip: the metric of an empty fund compared with the threshold
_pass_compared(rule_text, metric_value, threshold, unit, message) ==
    [rule |-> rule_text, passed |-> FloatLe(metric_value, threshold), error |-> FALSE,
     metric_value |-> F(metric_value), threshold |-> threshold, unit |-> unit,
     breaches |-> <<>>, message |-> message]

_pass(rule_text, metric_value, threshold, unit, message) ==
    [rule |-> rule_text, passed |-> TRUE, error |-> FALSE,
     metric_value |-> F(metric_value), threshold |-> threshold, unit |-> unit,
     breaches |-> <<>>, message |-> message]

\* the dict an evaluator returns from its try block
Result(rule_text, passed, metric_value, threshold, unit, breaches, message) ==
    [rule |-> rule_text, passed |-> passed, error |-> FALSE,
     metric_value |-> F(metric_value), threshold |-> threshold, unit |-> unit,
     breaches |-> breaches, message |-> message]

\* ---------------------------------------------------------------------
\* Generated compliance functions
\*
\* db is portfolio.db as one evaluation meets it: db.table the positions,
\* db.failAt the number of the execute_sql call that raises (0: none),
\* db.tie the order of equal sort keys.  An evaluator yields its result and
\* the execute_sql calls it issued.
\* ---------------------------------------------------------------------

\* threshold was not passed: the parameter takes its default
Absent == [t |-> "absent"]

Param(threshold, default) == IF threshold = Absent THEN F(default) ELSE threshold

Call(q, ok) == [sql |-> q, ok |-> ok]

Outcome(result, calls) == [result |-> result, calls |-> calls]

\* df.iloc[0, 0] if the frame has a row and the cell is not None, else 0.0
Scalar(df) == IF df # <<>> /\ df[1].value # None THEN df[1].value.v ELSE 0

\* a slip: only the first row of the breach query kept
BreachList_first(df_b) ==
    [i \in {k \in DOMAIN df_b : k = 1} |->
        [identifier  |-> df_b[i].identifier,
         description |-> df_b[i].description,
         value       |-> df_b[i].value]]

\* the breach dicts built from the rows of a breach query
BreachList(df_b) ==
    [i \in DOMAIN df_b |->
        [identifier  |-> df_b[i].identifier,
         description |-> df_b[i].description,
         value       |-> df_b[i].value]]

Judged(passed, yes, no) == IF passed THEN yes ELSE no

\* the try block of a MAX_PCT_NAV evaluator, df and df_b being the frames
\* its two queries return when they do
MaxPctNavTry(rule_text, subject, sql, sql_breach, failAt, threshold, df, df_b) ==
    LET weight == Scalar(df)
        passed == FloatLe(weight, threshold)
        failed == _error(rule_text, threshold, "% of NAV", ExcText)
    IN  IF failAt = 1 THEN Outcome(failed, <<Call(sql, FALSE)>>)
        ELSE IF ~passed /\ failAt = 2
        THEN Outcome(failed, <<Call(sql, TRUE), Call(sql_breach, FALSE)>>)
        ELSE Outcome(
               Result(rule_text, passed, PyRound(weight, RoundDigits), threshold, "% of NAV",
                      IF passed THEN <<>> ELSE BreachList(df_b),
                      Message(<<subject, Judged(passed, "within", "exceeds"), "max">>,
                              <<F(PyRound(weight, 2)), threshold>>)),
               IF passed THEN <<Call(sql, TRUE)>>
               ELSE <<Call(sql, TRUE), Call(sql_breach, TRUE)>>)

\* the body shared by the MAX_PCT_NAV evaluators: sum, compare, enumerate
MaxPctNav(rule_text, subject, where, limit, db, fund_id, threshold) ==
    MaxPctNavTry(rule_text, subject, SqlSum(where, limit), SqlRows(where, limit),
                 db.failAt, threshold,
                 execute_sql(db.table, fund_id, SqlSum(where, limit), db.tie),
                 execute_sql(db.table, fund_id, SqlRows(where, limit), db.tie))

check_max_equity_exposure(db, fund_id, threshold) ==
    MaxPctNav("max 60% of portfolio in Equity", "Equity exposure",
              AssetClassIn({"Equity"}), 0, db, fund_id, Param(threshold, Pct(60)))

check_max_bond_exposure(db, fund_id, threshold) ==
    MaxPctNav("max 40% of portfolio in Bonds", "Bond exposure",
              AssetClassIn({"Bond"}), 0, db, fund_id, Param(threshold, Pct(40)))

check_max_review_status_exposure(db, fund_id, threshold) ==
    MaxPctNav("max 20% of portfolio in Review status positions", "Review-status positions",
              StatusIs("Review"), 0, db, fund_id, Param(threshold, Pct(20)))

check_max_commodity_exposure(db, fund_id, threshold) ==
    MaxPctNav("max 15% of portfolio in Commodity", "Commodity exposure",
              AssetClassIn({"Commodity"}), 0, db, fund_id, Param(threshold, Pct(15)))

check_max_equity_etf_combined(db, fund_id, threshold) ==
    MaxPctNav("max 50% of portfolio in Equity plus ETF combined", "Equity+ETF combined",
              AssetClassIn({"Equity", "ETF"}), 0, db, fund_id, Param(threshold, Pct(50)))

\* LIMIT 5 of the top-5 queries
Top5 == 5

check_top5_holdings_concentration(db, fund_id, threshold) ==
    MaxPctNav("top 5 holdings max 80% of portfolio", "Top 5 holdings",
              AllPositions, Top5, db, fund_id, Param(threshold, Pct(80)))

\* a slip: the count compared with the threshold
NoRestrictedTry_threshold(rule_text, sql_count, sql_breach, failAt, threshold, df, df_b) ==
    LET count  == Scalar(df)
        passed == FloatLe(count, threshold)
        failed == _error(rule_text, threshold, "count", ExcText)
    IN  IF failAt = 1 THEN Outcome(failed, <<Call(sql_count, FALSE)>>)
        ELSE IF ~passed /\ failAt = 2
        THEN Outcome(failed, <<Call(sql_count, TRUE), Call(sql_breach, FALSE)>>)
        ELSE Outcome(
               Result(rule_text, passed, count, threshold, "count",
                      IF passed THEN <<>> ELSE BreachList(df_b),
                      IF passed THEN Message(<<"No", "Restricted", "positions", "found.">>, <<>>)
                      ELSE Message(<<"Restricted", "position(s)", "found", "rule", "breached.">>,
                                   <<F(count)>>)),
               IF passed THEN <<Call(sql_count, TRUE)>>
               ELSE <<Call(sql_count, TRUE), Call(sql_breach, TRUE)>>)

\* the try block of check_no_restricted_positions
NoRestrictedTry(rule_text, sql_count, sql_breach, failAt, threshold, df, df_b) ==
    LET count  == Scalar(df)
        passed == count = 0
        failed == _error(rule_text, threshold, "count", ExcText)
    IN  IF failAt = 1 THEN Outcome(failed, <<Call(sql_count, FALSE)>>)
        ELSE IF ~passed /\ failAt = 2
        THEN Outcome(failed, <<Call(sql_count, TRUE), Call(sql_breach, FALSE)>>)
        ELSE Outcome(
               Result(rule_text, passed, count, threshold, "count",
                      IF passed THEN <<>> ELSE BreachList(df_b),
                      IF passed THEN Message(<<"No", "Restricted", "positions", "found.">>, <<>>)
                      ELSE Message(<<"Restricted", "position(s)", "found", "rule", "breached.">>,
                                   <<F(count)>>)),
               IF passed THEN <<Call(sql_count, TRUE)>>
               ELSE <<Call(sql_count, TRUE), Call(sql_breach, TRUE)>>)

check_no_restricted_positions(db, fund_id, threshold) ==
    NoRestrictedTry("no positions with Restricted compliance status",
                    SqlCount(StatusIs("Restricted")), SqlRows(StatusIs("Restricted"), 0),
                    db.failAt, Param(threshold, Count(0)),
                    execute_sql(db.table, fund_id, SqlCount(StatusIs("Restricted")), db.tie),
                    execute_sql(db.table, fund_id, SqlRows(StatusIs("Restricted"), 0), db.tie))

\* the try block of a group CONCENTRATION evaluator
GroupConcentrationTry(rule_text, dim, sql, failAt, threshold, df) ==
    LET max_weight == df[1].value
        passed     == FloatLe(max_weight, threshold)
        breaching  == SelectSeq(df, LAMBDA row : FloatGt(row.value, threshold))
        breaches   == [i \in DOMAIN breaching |->
                          [identifier  |-> breaching[i].identifier,
                           description |-> breaching[i].identifier,
                           value       |-> breaching[i].value]]
    IN  IF failAt = 1
        THEN Outcome(_error(rule_text, threshold, "% of NAV", ExcText), <<Call(sql, FALSE)>>)
        ELSE IF df = <<>>
        THEN Outcome(_pass(rule_text, 0, threshold, "% of NAV",
                           Message(<<"No", "positions", "found.">>, <<>>)),
                     <<Call(sql, TRUE)>>)
        ELSE Outcome(
               Result(rule_text, passed, PyRound(max_weight, RoundDigits), threshold, "% of NAV",
                      IF passed THEN <<>> ELSE breaches,
                      Message(<<"Max", dim, "concentration", df[1].identifier,
                                Judged(passed, "within", "exceeds"), "max">>,
                              <<F(PyRound(max_weight, 2)), threshold>>)),
               <<Call(sql, TRUE)>>)

\* the body shared by the two group CONCENTRATION evaluators
GroupConcentration(rule_text, dim, db, fund_id, threshold) ==
    GroupConcentrationTry(rule_text, dim, SqlGroup(dim), db.failAt, threshold,
                          execute_sql(db.table, fund_id, SqlGroup(dim), db.tie))

check_max_single_country_concentration(db, fund_id, threshold) ==
    GroupConcentration("max 30% of portfolio in any single country", "country",
                       db, fund_id, Param(threshold, Pct(30)))

check_max_single_sector_concentration(db, fund_id, threshold) ==
    GroupConcentration("max 30% of portfolio in any single sector", "sector",
                       db, fund_id, Param(threshold, Pct(30)))

\* the try block of check_max_single_position_weight
SinglePositionTry(rule_text, sql, failAt, threshold, df) ==
    LET max_weight == df[1].value
        passed     == FloatLe(max_weight, threshold)
        breaching  == SelectSeq(df, LAMBDA row : FloatGt(row.value, threshold))
    IN  IF failAt = 1
        THEN Outcome(_error(rule_text, threshold, "% of NAV", ExcText), <<Call(sql, FALSE)>>)
        ELSE IF df = <<>>
        THEN Outcome(_pass(rule_text, 0, threshold, "% of NAV",
                           Message(<<"No", "positions", "found.">>, <<>>)),
                     <<Call(sql, TRUE)>>)
        ELSE Outcome(
               Result(rule_text, passed, PyRound(max_weight, RoundDigits), threshold, "% of NAV",
                      IF passed THEN <<>> ELSE BreachList(breaching),
                      Message(<<"Largest", "position", "is", df[1].description,
                                Judged(passed, "within", "exceeds"), "max">>,
                              <<F(PyRound(max_weight, 2)), threshold>>)),
               <<Call(sql, TRUE)>>)

check_max_single_position_weight(db, fund_id, threshold) ==
    SinglePositionTry("no single position to exceed 15% of NAV", SqlRows(AllPositions, 0),
                      db.failAt, Param(threshold, Pct(15)),
                      execute_sql(db.table, fund_id, SqlRows(AllPositions, 0), db.tie))

\* the try block of check_min_cash_exposure
MinCashTry(rule_text, sql, failAt, threshold, df) ==
    LET cash_weight == Scalar(df)
        passed      == FloatGe(cash_weight, threshold)
    IN  IF failAt = 1
        THEN Outcome(_error(rule_text, threshold, "% of NAV", ExcText), <<Call(sql, FALSE)>>)
        ELSE Outcome(
               Result(rule_text, passed, PyRound(cash_weight, RoundDigits), threshold,
                      "% of NAV", <<>>,
                      Message(<<"Cash", "is", Judged(passed, "meets", "below"), "minimum">>,
                              <<F(PyRound(cash_weight, 2)), threshold>>)),
               <<Call(sql, TRUE)>>)

check_min_cash_exposure(db, fund_id, threshold) ==
    MinCashTry("min 2% of portfolio in Cash", SqlSum(AssetClassIn({"Cash"}), 0),
               db.failAt, Param(threshold, Pct(2)),
               execute_sql(db.table, fund_id, SqlSum(AssetClassIn({"Cash"}), 0), db.tie))

\* the try block of check_min_position_count
MinCountTry(rule_text, sql, failAt, threshold, df) ==
    LET count  == Scalar(df)
        passed == FloatGe(count, threshold)
    IN  IF failAt = 1
        THEN Outcome(_error(rule_text, threshold, "count", ExcText), <<Call(sql, FALSE)>>)
        ELSE Outcome(
               Result(rule_text, passed, count, threshold, "count", <<>>,
                      Message(<<"Portfolio", "has", "positions",
                                Judged(passed, "meets", "below"), "minimum", "of">>,
                              <<F(count), threshold>>)),
               <<Call(sql, TRUE)>>)

check_min_position_count(db, fund_id, threshold) ==
    MinCountTry("minimum 10 positions in portfolio", SqlCount(AllPositions),
                db.failAt, Param(threshold, Count(10)),
                execute_sql(db.table, fund_id, SqlCount(AllPositions), db.tie))

\* ---------------------------------------------------------------------
\* Registry
\* ---------------------------------------------------------------------

Rid(a, b) == <<"R", "0", a, b>>

RULE_REGISTRY ==
    (Rid("0", "1") :> "check_max_equity_exposure") @@
    (Rid("0", "2") :> "check_no_restricted_positions") @@
    (Rid("0", "3") :> "check_max_single_country_concentration") @@
    (Rid("0", "4") :> "check_max_single_sector_concentration") @@
    (Rid("0", "5") :> "check_max_bond_exposure") @@
    (Rid("0", "6") :> "check_min_cash_exposure") @@
    (Rid("0", "7") :> "check_max_single_position_weight") @@
    (Rid("0", "8") :> "check_max_review_status_exposure") @@
    (Rid("0", "9") :> "check_max_commodity_exposure") @@
    (Rid("1", "0") :> "check_max_equity_etf_combined") @@
    (Rid("1", "1") :> "check_min_position_count") @@
    (Rid("1", "2") :> "check_top5_holdings_concentration")

\* func(**kwargs)
Invoke(func, db, fund_id, threshold) ==
    CASE func = "check_max_equity_exposure" -> check_max_equity_exposure(db, fund_id, threshold)
      [] func = "check_no_restricted_positions" -> check_no_restricted_positions(db, fund_id, threshold)
      [] func = "check_max_single_country_concentration" ->
             check_max_single_country_concentration(db, fund_id, threshold)
      [] func = "check_max_single_sector_concentration" ->
             check_max_single_sector_concentration(db, fund_id, threshold)
      [] func = "check_max_bond_exposure" -> check_max_bond_exposure(db, fund_id, threshold)
      [] func = "check_min_cash_exposure" -> check_min_cash_exposure(db, fund_id, threshold)
      [] func = "check_max_single_position_weight" ->
             check_max_single_position_weight(db, fund_id, threshold)
      [] func = "check_max_review_status_exposure" ->
             check_max_review_status_exposure(db, fund_id, threshold)
      [] func = "check_max_commodity_exposure" -> check_max_commodity_exposure(db, fund_id, threshold)
      [] func = "check_max_equity_etf_combined" -> check_max_equity_etf_combined(db, fund_id, threshold)
      [] func = "check_min_position_count" -> check_min_position_count(db, fund_id, threshold)
      [] func = "check_top5_holdings_concentration" ->
             check_top5_holdings_concentration(db, fund_id, threshold)

\* ---------------------------------------------------------------------
\* Step 1 - Read input Excel
\* ---------------------------------------------------------------------

TRUE_STR == <<"T", "R", "U", "E">>

\* a slip: the enabled column upper-cased without fillna("TRUE")
LoadedRow_unfilled(row) ==
    [rule_id            |-> row.rule_id,
     rule_text          |-> row.rule_text,
     threshold_override |-> row.threshold_override,
     enabled            |-> IF "enabled" \in DOMAIN row
                            THEN (IF row.enabled # NaN THEN Str(PyUpper(row.enabled.s)) ELSE NaN)
                            ELSE Str(TRUE_STR)]

\* load_rules on a file that exists and has a Rules sheet: blank cells come
\* back as NaN; the enabled column is created or filled with TRUE and
\* upper-cased (NaN.upper() stays NaN, but fillna has removed every NaN)
LoadedRow(row) ==
    [rule_id            |-> row.rule_id,
     rule_text          |-> row.rule_text,
     threshold_override |-> row.threshold_override,
     enabled            |-> IF "enabled" \in DOMAIN row /\ row.enabled # NaN
                            THEN Str(PyUpper(row.enabled.s))
                            ELSE Str(TRUE_STR)]

load_rules(f) == [i \in DOMAIN f.rows |-> LoadedRow(f.rows[i])]

\* ---------------------------------------------------------------------
\* Step 2+3 - Resolve and execute each rule
\* ---------------------------------------------------------------------

\* rule_id = str(rule.get("rule_id", "")).strip()
RuleId(rule) == PyStrip(PyStr(rule.rule_id))

\* a slip: the flag read under a key no row has, so that the default applies
Enabled_defaulted(rule) == PyUpper(PyStrip(TRUE_STR))

\* enabled = str(rule.get("enabled", "TRUE")).strip().upper()
Enabled(rule) ==
    PyUpper(PyStrip(IF "enabled" \in DOMAIN rule THEN PyStr(rule.enabled) ELSE TRUE_STR))

\* the override is looked at: truthy and, stripped, none of "", "nan", "None"
OverrideGiven(override) ==
    /\ Truthy(override)
    /\ PyStrip(PyStr(override)) \notin {<<>>, <<"n", "a", "n">>, <<"N", "o", "n", "e">>}

\* a slip: an override float() rejects coerced to NaN instead of dropped
ThresholdKwarg_coerced(rule) ==
    LET override == rule.threshold_override
        parsed   == PyFloat(override.s)
    IN  IF OverrideGiven(override)
        THEN (IF parsed.t = "ValueError" THEN NaN ELSE parsed)
        ELSE Absent

\* a slip: the override never passed on
ThresholdKwarg_dropped(rule) == Absent

\* kwargs["threshold"], or Absent when the override is blank or float() raises
ThresholdKwarg(rule) ==
    LET override == rule.threshold_override
        parsed   == PyFloat(override.s)
    IN  IF OverrideGiven(override) /\ parsed.t # "ValueError" THEN parsed ELSE Absent

\* the override is given and float(override) raises ValueError
OverrideRejected(rule) ==
    /\ OverrideGiven(rule.threshold_override)
    /\ PyFloat(rule.threshold_override.s).t = "ValueError"

SkippedRow(rule) ==
    [rule_id |-> RuleId(rule), rule_text |-> rule.rule_text, status |-> "SKIPPED",
     metric_value |-> Str(<<>>), threshold |-> Str(<<>>), unit |-> "",
     message |-> Message(<<"Rule", "disabled">>, <<>>), breach_count |-> 0]

\* a slip: the result without its "error" flag
Unregistered_noerror(rule_id) ==
    [passed |-> FALSE, error |-> FALSE, metric_value |-> None, threshold |-> None,
     unit |-> "", breaches |-> <<>>,
     message |-> Message(<<"No", "compliance", "function", "registered", "for", "rule_id">>,
                         <<Str(rule_id)>>)]

\* the result recorded for a rule_id that RULE_REGISTRY does not hold
Unregistered(rule_id) ==
    [passed |-> FALSE, error |-> TRUE, metric_value |-> None, threshold |-> None,
     unit |-> "", breaches |-> <<>>,
     message |-> Message(<<"No", "compliance", "function", "registered", "for", "rule_id">>,
                         <<Str(rule_id)>>)]

\* a slip: the passed flag read the wrong way round
Status_inverted(result) ==
    IF result.error THEN "ERROR" ELSE IF result.passed THEN "FAIL" ELSE "PASS"

Status(result) == IF result.error THEN "ERROR" ELSE IF result.passed THEN "PASS" ELSE "FAIL"

SummaryRow(rule, result) ==
    [rule_id |-> RuleId(rule), rule_text |-> rule.rule_text, status |-> Status(result),
     metric_value |-> result.metric_value, threshold |-> result.threshold,
     unit |-> result.unit, message |-> result.message,
     breach_count |-> Len(result.breaches)]

BreachRows(rule, result) ==
    [i \in DOMAIN result.breaches |->
        [rule_id     |-> RuleId(rule),
         rule_text   |-> rule.rule_text,
         identifier  |-> result.breaches[i].identifier,
         description |-> result.breaches[i].description,
         value       |-> result.breaches[i].value,
         unit        |-> result.unit]]

\* ---------------------------------------------------------------------
\* The inputs of a run
\* ---------------------------------------------------------------------

FALSE_STR == <<"F", "A", "L", "S", "E">>

RuleText == Str(<<"r", "u", "l", "e">>)

\* rule_id cells: the twelve registered ids, one padded with blanks, and an
\* id the registry does not hold
RuleIdCells ==
    {Str(id) : id \in DOMAIN RULE_REGISTRY}
        \cup {Str(<<" ">> \o Rid("0", "1") \o <<" ">>), Str(Rid("9", "9"))}

\* threshold_override cells: blank (NaN as read, or an empty str), numbers,
\* text that float() rejects, and NAN, which float() reads as a NaN
NumericOverrides ==
    {Str(<<"7", "0">>), Str(<<"2", "0">>), Str(<<"1", "0">>), Str(<<"-", "5">>),
     Str(<<" ", "7", "0", ".", "0">>), Str(<<"2", "0", ".", "0", "0", "0", "0", "4">>)}

BlankOverrides == {NaN, Str(<<>>), Str(<<" ">>)}

BadOverrides == {Str(<<"a", "b", "c">>), Str(<<"6", "0", "%">>)}

NanOverride == Str(<<"N", "A", "N">>)

FileRow(id, text, override, enabled) ==
    [rule_id |-> id, rule_text |-> text, threshold_override |-> override, enabled |-> enabled]

\* the rows a Rules sheet is drawn from: every rule_id with every override,
\* and a few rule_ids disabled, with other spellings of the flag, or with a
\* blank rule_text
FileRows ==
    {FileRow(id, RuleText, o, Str(TRUE_STR)) :
        id \in RuleIdCells,
        o \in NumericOverrides \cup BlankOverrides \cup BadOverrides \cup {NanOverride}}
    \cup
    {FileRow(Str(id), RuleText, o, Str(FALSE_STR)) :
        id \in {Rid("0", "1"), Rid("0", "7"), Rid("9", "9")},
        o \in {NaN, Str(<<"a", "b", "c">>), Str(<<"7", "0">>)}}
    \cup
    {FileRow(Str(id), RuleText, NaN, e) :
        id \in {Rid("0", "1"), Rid("1", "1"), Rid("9", "9")},
        e \in {NaN, Str(<<"t", "r", "u", "e">>), Str(<<" ", "T", "r", "u", "e">>),
               Str(<<"t", "R", "u", "E">>), Str(<<"f", "a", "l", "s", "e">>),
               Str(<<"F", "a", "l", "s", "e", " ">>), Str(<<"n", "o">>), Str(<<" ">>)}}
    \cup
    {FileRow(Str(id), NaN, NaN, e) :
        id \in {Rid("0", "1"), Rid("9", "9")}, e \in {Str(TRUE_STR), Str(FALSE_STR)}}

\* the rows that sheets of more than one row are made of: a rule that fails
\* with one breach, an unregistered id, a rejected override, a disabled
\* rule, a rule with a numeric override that lists several breaches
CoreRows ==
    {FileRow(Str(Rid("0", "1")), RuleText, NaN, Str(TRUE_STR)),
     FileRow(Str(Rid("9", "9")), RuleText, NaN, Str(TRUE_STR)),
     FileRow(Str(Rid("0", "6")), RuleText, Str(<<"a", "b", "c">>), Str(TRUE_STR)),
     FileRow(Str(Rid("0", "2")), RuleText, NaN, Str(FALSE_STR)),
     FileRow(Str(Rid("0", "7")), RuleText, Str(<<"1", "0">>), Str(TRUE_STR))}

\* sheets of at most n rows: one row of any kind, or several core rows
RECURSIVE Sheets(_)
Sheets(n) ==
    IF n = 0 THEN {<<>>}
    ELSE IF n = 1 THEN {<<>>} \cup {<<r>> : r \in FileRows}
    ELSE Sheets(n - 1) \cup
         {<<first>> \o rest : first \in CoreRows,
                              rest \in {s \in Sheets(n - 1) :
                                          /\ Len(s) = n - 1
                                          /\ \A i \in DOMAIN s : s[i] \in CoreRows}}

NoEnabledColumn(rows) ==
    [i \in DOMAIN rows |->
        [rule_id            |-> rows[i].rule_id,
         rule_text          |-> rows[i].rule_text,
         threshold_override |-> rows[i].threshold_override]]

\* the --input file: absent, without a Rules sheet, or a Rules sheet with
\* or without an enabled column
Files ==
    {[exists |-> FALSE, has_rules |-> FALSE, rows |-> <<>>],
     [exists |-> TRUE, has_rules |-> FALSE, rows |-> <<>>]}
    \cup {[exists |-> TRUE, has_rules |-> TRUE, rows |-> rows] : rows \in Sheets(MaxRules)}
    \cup {[exists |-> TRUE, has_rules |-> TRUE, rows |-> NoEnabledColumn(<<r>>)] :
            r \in {x \in CoreRows : x.threshold_override = NaN}}

\* ---------------------------------------------------------------------
\* State
\* ---------------------------------------------------------------------

VARIABLES
    pc,            \* where main is
    file,          \* the --input file
    table,         \* the positions table of portfolio.db
    fund_id,       \* --fund-id
    rules,         \* what load_rules returned
    idx,           \* the manifest row run_rules is at
    summary_rows,
    breach_rows,
    report,        \* the workbook write_output saved: its two sheets
    printed,       \* the counts print_summary printed
    warnings,      \* the [WARN] lines on the console
    lookups,       \* the RULE_REGISTRY.get calls: row and rule_id
    sql_calls,     \* the execute_sql calls: row, query, whether it returned
    seen,          \* per processed row, the database as its evaluation met it
    faults         \* execute_sql calls that raised so far

vars == <<pc, file, table, fund_id, rules, idx, summary_rows, breach_rows, report,
          printed, warnings, lookups, sql_calls, seen, faults>>

NoDb == [t |-> "None"]

Init ==
    /\ pc = "start"
    /\ file \in Files
    /\ table \in Portfolios
    /\ fund_id \in Funds
    /\ rules = <<>>
    /\ idx = 0
    /\ summary_rows = <<>>
    /\ breach_rows = <<>>
    /\ report = None
    /\ printed = None
    /\ warnings = <<>>
    /\ lookups = <<>>
    /\ sql_calls = <<>>
    /\ seen = <<>>
    /\ faults = 0

\* ---------------------------------------------------------------------
\* main
\* ---------------------------------------------------------------------

\* a slip: a missing file or sheet read as an empty manifest
LoadRules_lenient ==
    /\ pc = "start"
    /\ rules' = IF file.exists /\ file.has_rules THEN load_rules(file) ELSE <<>>
    /\ pc' = "loaded"
    /\ UNCHANGED <<file, table, fund_id, idx, summary_rows, breach_rows, report,
                   printed, warnings, lookups, sql_calls, seen, faults>>

\* rules = load_rules(args.input): raises when the file is missing or has
\* no sheet named Rules, and main ends there
LoadRules ==
    /\ pc = "start"
    /\ IF file.exists /\ file.has_rules
       THEN /\ rules' = load_rules(file)
            /\ pc' = "loaded"
       ELSE /\ rules' = rules
            /\ pc' = "aborted"
    /\ UNCHANGED <<file, table, fund_id, idx, summary_rows, breach_rows, report,
                   printed, warnings, lookups, sql_calls, seen, faults>>

\* str(r.get("enabled", "TRUE")).upper() == "TRUE", as main tests it
AnnouncedAsEnabled(rule) == PyUpper(PyStr(rule.enabled)) = TRUE_STR

\* the "Checking ..." lines: r['rule_text'][:60] raises TypeError on a blank
\* (NaN) rule_text cell of a row main takes as enabled
Announce ==
    /\ pc = "loaded"
    /\ IF \E i \in DOMAIN rules : AnnouncedAsEnabled(rules[i]) /\ rules[i].rule_text = NaN
       THEN pc' = "crashed" /\ idx' = idx
       ELSE pc' = "running" /\ idx' = 1
    /\ UNCHANGED <<file, table, fund_id, rules, summary_rows, breach_rows, report,
                   printed, warnings, lookups, sql_calls, seen, faults>>

\* a slip: a disabled rule passed over without a summary row
SkipDisabled_dropped ==
    /\ pc = "running"
    /\ idx <= Len(rules)
    /\ Enabled(rules[idx]) # TRUE_STR
    /\ idx' = idx + 1
    /\ UNCHANGED <<pc, file, table, fund_id, rules, summary_rows, breach_rows, report,
                   printed, warnings, lookups, sql_calls, seen, faults>>

\* one turn of the loop of run_rules on a disabled rule
SkipDisabled ==
    /\ pc = "running"
    /\ idx <= Len(rules)
    /\ Enabled(rules[idx]) # TRUE_STR
    /\ summary_rows' = Append(summary_rows, SkippedRow(rules[idx]))
    /\ seen' = Append(seen, NoDb)
    /\ idx' = idx + 1
    /\ UNCHANGED <<pc, file, table, fund_id, rules, breach_rows, report, printed,
                   warnings, lookups, sql_calls, faults>>

\* one turn of the loop on an enabled rule whose rule_id has no function
RecordUnregistered ==
    /\ pc = "running"
    /\ idx <= Len(rules)
    /\ Enabled(rules[idx]) = TRUE_STR
    /\ RuleId(rules[idx]) \notin DOMAIN RULE_REGISTRY
    /\ lookups' = Append(lookups, [row |-> idx, rule_id |-> RuleId(rules[idx])])
    /\ warnings' = Append(warnings, [row |-> idx, warn |-> "No generated function"])
    /\ summary_rows' = Append(summary_rows,
                              SummaryRow(rules[idx], Unregistered(RuleId(rules[idx]))))
    /\ breach_rows' = breach_rows \o BreachRows(rules[idx], Unregistered(RuleId(rules[idx])))
    /\ seen' = Append(seen, NoDb)
    /\ idx' = idx + 1
    /\ UNCHANGED <<pc, file, table, fund_id, rules, report, printed, sql_calls, faults>>

\* what the database does during one evaluation: one more call may raise
\* while fewer than MaxFaults have
Databases ==
    {[table |-> table, failAt |-> k, tie |-> t] :
        k \in {n \in 0 .. 2 : n = 0 \/ faults < MaxFaults}, t \in {"asc", "desc"}}

Raised(calls) == \E i \in DOMAIN calls : ~calls[i].ok

\* a slip: one breaches list shared by all evaluations, so that a row counts
\* the breaches of the rows before it with its own
Evaluation_shared(rule, db, outcome, ascending) ==
    /\ db.failAt # 0 => Raised(outcome.calls)
    /\ db.tie = "desc" => outcome # ascending
    /\ lookups' = Append(lookups, [row |-> idx, rule_id |-> RuleId(rule)])
    /\ warnings' = IF OverrideRejected(rule)
                   THEN Append(warnings, [row |-> idx, warn |-> "Non-numeric threshold_override"])
                   ELSE warnings
    /\ sql_calls' = sql_calls \o
          [i \in DOMAIN outcome.calls |->
              [row |-> idx, sql |-> outcome.calls[i].sql, ok |-> outcome.calls[i].ok]]
    /\ faults' = IF Raised(outcome.calls) THEN faults + 1 ELSE faults
    /\ summary_rows' = Append(summary_rows,
                              [SummaryRow(rule, outcome.result)
                                  EXCEPT !.breach_count = @ + Len(breach_rows)])
    /\ breach_rows' = breach_rows \o BreachRows(rule, outcome.result)
    /\ seen' = Append(seen, db)

\* a slip: the breaches of a row put before those of the rows before it
Evaluation_prepended(rule, db, outcome, ascending) ==
    /\ db.failAt # 0 => Raised(outcome.calls)
    \* the other order of equal keys counts only where it shows
    /\ db.tie = "desc" => outcome # ascending
    /\ lookups' = Append(lookups, [row |-> idx, rule_id |-> RuleId(rule)])
    /\ warnings' = IF OverrideRejected(rule)
                   THEN Append(warnings, [row |-> idx, warn |-> "Non-numeric threshold_override"])
                   ELSE warnings
    /\ sql_calls' = sql_calls \o
          [i \in DOMAIN outcome.calls |->
              [row |-> idx, sql |-> outcome.calls[i].sql, ok |-> outcome.calls[i].ok]]
    /\ faults' = IF Raised(outcome.calls) THEN faults + 1 ELSE faults
    /\ summary_rows' = Append(summary_rows, SummaryRow(rule, outcome.result))
    /\ breach_rows' = BreachRows(rule, outcome.result) \o breach_rows
    /\ seen' = Append(seen, db)

\* what one evaluation of rule leaves behind, outcome being what its
\* function yields on db and ascending what it yields under the other order
\* of equal sort keys
Evaluation(rule, db, outcome, ascending) ==
    /\ db.failAt # 0 => Raised(outcome.calls)
    \* the other order of equal keys counts only where it shows
    /\ db.tie = "desc" => outcome # ascending
    /\ lookups' = Append(lookups, [row |-> idx, rule_id |-> RuleId(rule)])
    /\ warnings' = IF OverrideRejected(rule)
                   THEN Append(warnings, [row |-> idx, warn |-> "Non-numeric threshold_override"])
                   ELSE warnings
    /\ sql_calls' = sql_calls \o
          [i \in DOMAIN outcome.calls |->
              [row |-> idx, sql |-> outcome.calls[i].sql, ok |-> outcome.calls[i].ok]]
    /\ faults' = IF Raised(outcome.calls) THEN faults + 1 ELSE faults
    /\ summary_rows' = Append(summary_rows, SummaryRow(rule, outcome.result))
    /\ breach_rows' = breach_rows \o BreachRows(rule, outcome.result)
    /\ seen' = Append(seen, db)

\* one turn of the loop on an enabled, registered rule
EvaluateRule ==
    /\ pc = "running"
    /\ idx <= Len(rules)
    /\ Enabled(rules[idx]) = TRUE_STR
    /\ RuleId(rules[idx]) \in DOMAIN RULE_REGISTRY
    /\ \E db \in Databases :
          Evaluation(rules[idx], db,
                     Invoke(RULE_REGISTRY[RuleId(rules[idx])], db, fund_id,
                            ThresholdKwarg(rules[idx])),
                     Invoke(RULE_REGISTRY[RuleId(rules[idx])], [db EXCEPT !.tie = "asc"],
                            fund_id, ThresholdKwarg(rules[idx])))
    /\ idx' = idx + 1
    /\ UNCHANGED <<pc, file, table, fund_id, rules, report, printed>>

\* run_rules returns and write_output saves the Summary and Breaches sheets
WriteOutput ==
    /\ pc = "running"
    /\ idx > Len(rules)
    /\ report' = [Summary |-> summary_rows, Breaches |-> breach_rows]
    /\ pc' = "written"
    /\ UNCHANGED <<file, table, fund_id, rules, idx, summary_rows, breach_rows,
                   printed, warnings, lookups, sql_calls, seen, faults>>

CountStatus(rows, status) == Cardinality({i \in DOMAIN rows : rows[i].status = status})

RECURSIVE TotalBreaches(_)
TotalBreaches(rows) ==
    IF rows = <<>> THEN 0 ELSE Head(rows).breach_count + TotalBreaches(Tail(rows))

\* print_summary, then main returns
PrintSummary ==
    /\ pc = "written"
    /\ printed' = [total |-> Len(summary_rows),
                   PASS |-> CountStatus(summary_rows, "PASS"),
                   FAIL |-> CountStatus(summary_rows, "FAIL"),
                   ERROR |-> CountStatus(summary_rows, "ERROR"),
                   SKIPPED |-> CountStatus(summary_rows, "SKIPPED"),
                   total_breaches |-> TotalBreaches(summary_rows)]
    /\ pc' = "done"
    /\ UNCHANGED <<file, table, fund_id, rules, idx, summary_rows, breach_rows,
                   report, warnings, lookups, sql_calls, seen, faults>>

Next ==
    \/ LoadRules
    \/ Announce
    \/ SkipDisabled
    \/ RecordUnregistered
    \/ EvaluateRule
    \/ WriteOutput
    \/ PrintSummary

Spec == Init /\ [][Next]_vars

\* main runs to its end or to the exception that ends it
FairSpec == Spec /\ WF_vars(Next)

TypeOK ==
    /\ pc \in {"start", "loaded", "running", "written", "done", "aborted", "crashed"}
    /\ Len(summary_rows) = Len(seen)
    /\ faults \in 0 .. MaxFaults

\* ---------------------------------------------------------------------
\* What the properties speak about
\* ---------------------------------------------------------------------

R001 == Rid("0", "1")
R002 == Rid("0", "2")
R003 == Rid("0", "3")
R004 == Rid("0", "4")
R005 == Rid("0", "5")
R006 == Rid("0", "6")
R007 == Rid("0", "7")
R008 == Rid("0", "8")
R009 == Rid("0", "9")
R010 == Rid("1", "0")
R011 == Rid("1", "1")
R012 == Rid("1", "2")

RegisteredIds == {R001, R002, R003, R004, R005, R006, R007, R008, R009, R010, R011, R012}

MaxSumRules == {R001, R005, R008, R009, R010, R012}

\* manifest rows run_rules has gone through
Processed == DOMAIN summary_rows

\* the positions of the fund under test, read off the table
Holdings == {p \in table : p.fund_id = fund_id}

RECURSIVE Total(_)
Total(S) ==
    IF S = {} THEN 0
    ELSE LET p == CHOOSE q \in S : TRUE IN p.weight_pct + Total(S \ {p})

\* the largest total weight of at most n holdings
TopTotal(n) ==
    LET sums == {Total(T) : T \in {U \in SUBSET Holdings : Cardinality(U) <= n}}
    IN  CHOOSE m \in sums : \A k \in sums : k <= m

\* the holdings a sum rule adds up
Matching(id) ==
    CASE id = R001 -> {p \in Holdings : p.asset_class = "Equity"}
      [] id = R005 -> {p \in Holdings : p.asset_class = "Bond"}
      [] id = R006 -> {p \in Holdings : p.asset_class = "Cash"}
      [] id = R008 -> {p \in Holdings : p.compliance_status = "Review"}
      [] id = R009 -> {p \in Holdings : p.asset_class = "Commodity"}
      [] id = R010 -> {p \in Holdings : p.asset_class \in {"Equity", "ETF"}}
      [] id = R012 -> Holdings

\* the weight sum a sum rule judges
FilteredSum(id) == IF id = R012 THEN TopTotal(5) ELSE Total(Matching(id))

\* row i was dispatched to a registered evaluator
Evaluated(i) ==
    /\ i \in Processed
    /\ summary_rows[i].rule_id \in RegisteredIds
    /\ \E k \in DOMAIN lookups : lookups[k].row = i

\* an execute_sql call of row i raised
Faulted(i) == \E k \in DOMAIN sql_calls : sql_calls[k].row = i /\ ~sql_calls[k].ok

\* row i was evaluated and every query it issued returned
Answered(i) == Evaluated(i) /\ ~Faulted(i)

\* ---------------------------------------------------------------------
\* Properties
\* ---------------------------------------------------------------------

\* C1: every summary row has one status among PASS, FAIL, ERROR, SKIPPED,
\* and a row counts breaches only when its status is FAIL: PASS, ERROR and
\* SKIPPED rows have breach_count 0.
C1_StatusAndBreaches ==
    \A i \in Processed :
        /\ summary_rows[i].status \in {"PASS", "FAIL", "ERROR", "SKIPPED"}
        /\ summary_rows[i].breach_count > 0 => summary_rows[i].status = "FAIL"
        /\ summary_rows[i].status \in {"PASS", "ERROR", "SKIPPED"}
              => summary_rows[i].breach_count = 0

\* a run that recorded a FAIL with breaches next to a row of another status
C1_Witness ==
    /\ \E i \in Processed :
          summary_rows[i].status = "FAIL" /\ summary_rows[i].breach_count > 0
    /\ \E i \in Processed : summary_rows[i].status \in {"PASS", "ERROR", "SKIPPED"}

\* C2: the boundary is inclusive.  A max-type sum rule (R001, R005, R008,
\* R009, R010, R012) whose filtered weight sum equals the threshold it was
\* run with passes, and so does the min-type rule R006.
C2_BoundaryInclusive ==
    \A i \in Processed :
        /\ Answered(i)
        /\ summary_rows[i].rule_id \in MaxSumRules \cup {R006}
        /\ summary_rows[i].threshold = F(FilteredSum(summary_rows[i].rule_id))
        => summary_rows[i].status = "PASS"

\* R001 was run with a threshold its Equity sum, which is not zero, meets
C2_Witness ==
    \E i \in Processed :
        /\ Answered(i)
        /\ summary_rows[i].rule_id = R001
        /\ FilteredSum(R001) > 0
        /\ summary_rows[i].threshold = F(FilteredSum(R001))
        /\ summary_rows[i].status = "PASS"

\* C3: when no holding matches a sum rule's predicate and its query returns,
\* the rule reports metric_value 0.0, not null and not an error; a max-type
\* rule then passes for every threshold above 0, and R006 run with its
\* default threshold 2.0 fails.
C3_NoMatchIsZero ==
    \A i \in Processed :
        /\ Evaluated(i)
        /\ summary_rows[i].rule_id \in MaxSumRules \cup {R006}
        /\ Matching(summary_rows[i].rule_id) = {}
        /\ ~Faulted(i)
        => /\ summary_rows[i].metric_value = F(0)
           /\ summary_rows[i].status \in {"PASS", "FAIL"}
           /\ summary_rows[i].rule_id \in MaxSumRules
                 /\ IsFloat(summary_rows[i].threshold)
                 /\ summary_rows[i].threshold.v > 0
                 => summary_rows[i].status = "PASS"
           /\ summary_rows[i].rule_id = R006 /\ summary_rows[i].threshold = F(Pct(2))
                 => summary_rows[i].status = "FAIL"

\* R006 was run with its default threshold on a table that holds positions,
\* none of them Cash of the fund, and failed on a metric of 0.0
C3_Witness ==
    \E i \in Processed :
        /\ Evaluated(i) /\ ~Faulted(i)
        /\ summary_rows[i].rule_id = R006
        /\ table # {} /\ Matching(R006) = {}
        /\ summary_rows[i].threshold = F(Pct(2))
        /\ summary_rows[i].status = "FAIL"
        /\ summary_rows[i].metric_value = F(0)

\* the override cell of manifest row i is blank
NoOverride(i) == file.rows[i].threshold_override \in BlankOverrides

\* C4: for a fund that holds exactly one Equity position of weight 70, one
\* Bond position of weight 20 and one Cash position of weight 10, and with
\* no threshold override, R001 fails with metric_value 70.0 and one breach,
\* R006 passes with metric_value 10.0, and R011 fails with metric_value 3.
C4_EndToEnd ==
    \A i \in Processed :
        /\ Evaluated(i) /\ ~Faulted(i) /\ NoOverride(i)
        /\ Cardinality(Holdings) = 3
        /\ \E e, b, c \in Holdings :
              /\ e.asset_class = "Equity" /\ e.weight_pct = Pct(70)
              /\ b.asset_class = "Bond" /\ b.weight_pct = Pct(20)
              /\ c.asset_class = "Cash" /\ c.weight_pct = Pct(10)
        => /\ summary_rows[i].rule_id = R001
                 => /\ summary_rows[i].status = "FAIL"
                    /\ summary_rows[i].metric_value = F(Pct(70))
                    /\ summary_rows[i].breach_count = 1
           /\ summary_rows[i].rule_id = R006
                 => /\ summary_rows[i].status = "PASS"
                    /\ summary_rows[i].metric_value = F(Pct(10))
           /\ summary_rows[i].rule_id = R011
                 => /\ summary_rows[i].status = "FAIL"
                    /\ summary_rows[i].metric_value = F(Count(3))

Scenario7020 ==
    /\ Cardinality(Holdings) = 3
    /\ {p.asset_class : p \in Holdings} = {"Equity", "Bond", "Cash"}
    /\ Total(Holdings) = Pct(100)

\* R006 was run without override on the 70/20/10 fund, next to a position
\* of another fund, and passed
C4_Witness ==
    \E i \in Processed :
        /\ Evaluated(i) /\ ~Faulted(i) /\ NoOverride(i)
        /\ Scenario7020
        /\ table # Holdings
        /\ summary_rows[i].rule_id = R006
        /\ summary_rows[i].status = "PASS"

\* the enabled cell of manifest row i is a spelling of TRUE, blank or absent
FlagOn(i) ==
    \/ "enabled" \notin DOMAIN file.rows[i]
    \/ file.rows[i].enabled \in {NaN, Str(TRUE_STR), Str(<<"t", "r", "u", "e">>),
                                 Str(<<" ", "T", "r", "u", "e">>),
                                 Str(<<"t", "R", "u", "E">>)}

\* the enabled cell of manifest row i is a spelling of FALSE
FlagOff(i) ==
    /\ "enabled" \in DOMAIN file.rows[i]
    /\ file.rows[i].enabled \in {Str(FALSE_STR), Str(<<"F", "a", "l", "s", "e", " ">>),
                                 Str(<<"f", "a", "l", "s", "e">>)}

\* phrase occurs in text, word for word
ContainsWords(text, phrase) ==
    \E k \in 0 .. Len(text) - Len(phrase) : SubSeq(text, k + 1, k + Len(phrase)) = phrase

\* run_rules has appended one summary row per manifest row it went through
OneRowEach ==
    /\ pc = "running" => Len(summary_rows) = idx - 1
    /\ pc \in {"written", "done"} => Len(summary_rows) = Len(rules)
    /\ \A i \in Processed : summary_rows[i].rule_id = RuleId(rules[i])

\* C5 as claimed: an enabled row whose rule_id the registry does not hold
\* yields one summary row with status ERROR, breach_count 0 and a message
\* that contains the text "no function registered" (in either casing of
\* its first letter).
C5_Claimed ==
    /\ OneRowEach
    /\ \A i \in Processed :
          FlagOn(i) /\ summary_rows[i].rule_id \notin RegisteredIds
          => /\ summary_rows[i].status = "ERROR"
             /\ summary_rows[i].breach_count = 0
             /\ \/ ContainsWords(summary_rows[i].message.text, <<"no", "function", "registered">>)
                \/ ContainsWords(summary_rows[i].message.text, <<"No", "function", "registered">>)

\* C5, amended: an enabled row whose rule_id the registry does not hold
\* yields, without raising, one summary row with status ERROR, breach_count
\* 0, no metric, and the message "No compliance function registered for
\* rule_id '<rule_id>'".
C5_UnregisteredIsError ==
    /\ OneRowEach
    /\ \A i \in Processed :
          FlagOn(i) /\ summary_rows[i].rule_id \notin RegisteredIds
          => /\ summary_rows[i].status = "ERROR"
             /\ summary_rows[i].breach_count = 0
             /\ summary_rows[i].metric_value = None
             /\ summary_rows[i].message.text =
                   <<"No", "compliance", "function", "registered", "for", "rule_id">>
             /\ summary_rows[i].message.args = <<Str(summary_rows[i].rule_id)>>
             /\ pc \in {"running", "written", "done"}

\* R099 went through run_rules enabled
C5_Witness ==
    \E i \in Processed :
        /\ FlagOn(i)
        /\ summary_rows[i].rule_id = Rid("9", "9")
        /\ summary_rows[i].status = "ERROR"

\* the threshold each registered evaluator declares
DefaultThreshold(id) ==
    CASE id = R001 -> Pct(60) [] id = R002 -> Count(0) [] id = R003 -> Pct(30)
      [] id = R004 -> Pct(30) [] id = R005 -> Pct(40) [] id = R006 -> Pct(2)
      [] id = R007 -> Pct(15) [] id = R008 -> Pct(20) [] id = R009 -> Pct(15)
      [] id = R010 -> Pct(50) [] id = R011 -> Count(10) [] id = R012 -> Pct(80)

\* the summary row that row i gets when its override cell is left blank and
\* the database behaves as it did
RowWithoutOverride(i) ==
    SummaryRow(rules[i],
               Invoke(RULE_REGISTRY[RuleId(rules[i])], seen[i], fund_id, Absent).result)

Spelled(cell) ==
    CASE cell = Str(<<"7", "0">>) -> Pct(70)
      [] cell = Str(<<"2", "0">>) -> Pct(20)
      [] cell = Str(<<"1", "0">>) -> Pct(10)
      [] cell = Str(<<"-", "5">>) -> 0 - Pct(5)
      [] cell = Str(<<" ", "7", "0", ".", "0">>) -> Pct(70)
      [] cell = Str(<<"2", "0", ".", "0", "0", "0", "0", "4">>) -> Pct(20) + 4

\* the largest total weight the holdings of one country (sector) have
LargestGroup(dim) ==
    LET sums == {Total({q \in Holdings : GroupKey(q, dim) = GroupKey(p, dim)}) : p \in Holdings}
    IN  IF Holdings = {} THEN 0 ELSE CHOOSE m \in sums : \A k \in sums : k <= m

\* the weight of the largest holding
LargestPosition ==
    LET weights == {p.weight_pct : p \in Holdings}
    IN  IF Holdings = {} THEN 0 ELSE CHOOSE m \in weights : \A k \in weights : k <= m

\* the quantity each rule measures, before any rounding
Measured(id) ==
    CASE id \in MaxSumRules \cup {R006} -> FilteredSum(id)
      [] id = R002 -> Count(Cardinality({p \in Holdings : p.compliance_status = "Restricted"}))
      [] id = R003 -> LargestGroup("country")
      [] id = R004 -> LargestGroup("sector")
      [] id = R007 -> LargestPosition
      [] id = R011 -> Count(Cardinality(Holdings))

\* the decision of rule id taken against the threshold th: at least th for
\* the two minimum rules, at most th for the others
DecidedAgainst(id, th) ==
    IF id \in {R006, R011} THEN Measured(id) >= th ELSE Measured(id) <= th

\* the decision the evaluators take: R002 asks for no Restricted position
\* whatever its threshold, and R003, R004 and R007 pass a fund without
\* positions whatever their threshold
DecidedAsCoded(id, th) ==
    IF id = R002 THEN Measured(R002) = 0
    ELSE IF id \in {R003, R004, R007} /\ Holdings = {} THEN TRUE
    ELSE DecidedAgainst(id, th)

\* C7 as claimed: with a numeric override the decision is taken against the
\* override and the summary row reports the override; with a blank override
\* the default of the evaluator is used and reported.
C7_Claimed ==
    \A i \in Processed :
        FlagOn(i) /\ summary_rows[i].rule_id \in RegisteredIds
        => LET id   == summary_rows[i].rule_id
               cell == file.rows[i].threshold_override
           IN  /\ cell \in NumericOverrides
                  => /\ summary_rows[i].threshold = F(Spelled(cell))
                     /\ Answered(i) => (summary_rows[i].status = "PASS"
                                           <=> DecidedAgainst(id, Spelled(cell)))
               /\ cell \in BlankOverrides
                  => /\ summary_rows[i].threshold = F(DefaultThreshold(id))
                     /\ Answered(i) => (summary_rows[i].status = "PASS"
                                           <=> DecidedAgainst(id, DefaultThreshold(id)))

\* C7, amended: with a numeric override the evaluator is invoked with that
\* number and the summary row reports it; with a blank override the default
\* of the evaluator is used and reported.  The decision is taken against
\* that threshold, except that R002 passes exactly when the fund holds no
\* Restricted position, and R003, R004 and R007 pass a fund without
\* positions, whatever the threshold.
C7_OverrideUsed ==
    \A i \in Processed :
        FlagOn(i) /\ summary_rows[i].rule_id \in RegisteredIds
        => LET id   == summary_rows[i].rule_id
               cell == file.rows[i].threshold_override
           IN  /\ Evaluated(i)
               /\ cell \in NumericOverrides
                  => /\ summary_rows[i].threshold = F(Spelled(cell))
                     /\ Answered(i) => (summary_rows[i].status = "PASS"
                                           <=> DecidedAsCoded(id, Spelled(cell)))
               /\ cell \in BlankOverrides
                  => /\ summary_rows[i].threshold = F(DefaultThreshold(id))
                     /\ Answered(i) => (summary_rows[i].status = "PASS"
                                           <=> DecidedAsCoded(id, DefaultThreshold(id)))

\* R001 passed against the override 70 a fund whose Equity weight its
\* default threshold would have failed
C7_Witness ==
    \E i \in Processed :
        /\ Answered(i)
        /\ summary_rows[i].rule_id = R001
        /\ file.rows[i].threshold_override = Str(<<"7", "0">>)
        /\ summary_rows[i].threshold = F(Pct(70))
        /\ Measured(R001) > DefaultThreshold(R001)
        /\ summary_rows[i].status = "PASS"

\* breach rows are the breaches of the summary rows, no more
BreachesAccounted == Len(breach_rows) = TotalBreaches(summary_rows)

\* C8: a disabled rule ends at SKIPPED.  Every manifest row whose enabled
\* flag is false has a summary row with status SKIPPED and breach_count 0,
\* adds no breach row, and neither the registry nor the position store is
\* consulted for it, whatever its rule_id and its override.
C8_DisabledIsSkipped ==
    /\ BreachesAccounted
    /\ \A i \in Processed :
          FlagOff(i)
          => /\ summary_rows[i].status = "SKIPPED"
             /\ summary_rows[i].breach_count = 0
             /\ summary_rows[i].rule_id = RuleId(rules[i])
             /\ \A k \in DOMAIN lookups : lookups[k].row # i
             /\ \A k \in DOMAIN sql_calls : sql_calls[k].row # i
             /\ \A k \in DOMAIN warnings : warnings[k].row # i
             /\ seen[i] = NoDb

\* a disabled row with the unregistered id R099 and the override abc went
\* through run_rules
C8_Witness ==
    \E i \in Processed :
        /\ FlagOff(i)
        /\ summary_rows[i].rule_id = Rid("9", "9")
        /\ file.rows[i].threshold_override = Str(<<"a", "b", "c">>)
        /\ summary_rows[i].status = "SKIPPED"

\* C9: no evaluator lets an exception out.  When a query an evaluator issues
\* fails, the breach query issued after a failing metric included, the
\* summary row has status ERROR, a null metric, breach_count 0 and a message
\* that carries the text of the exception; the run goes on.
C9_QueryFailureIsError ==
    /\ BreachesAccounted
    /\ \A i \in Processed :
          Faulted(i)
          => /\ summary_rows[i].status = "ERROR"
             /\ summary_rows[i].metric_value = None
             /\ summary_rows[i].breach_count = 0
             /\ ContainsWords(summary_rows[i].message.text, <<ExcText>>)
             /\ pc \in {"running", "written", "done"}

\* the breach query of a rule failed after its metric query had returned
C9_Witness ==
    \E i \in Processed :
        /\ \E k, l \in DOMAIN sql_calls :
              /\ k < l
              /\ sql_calls[k].row = i /\ sql_calls[k].ok
              /\ sql_calls[l].row = i /\ ~sql_calls[l].ok
        /\ summary_rows[i].status = "ERROR"
        /\ summary_rows[i].metric_value = None

\* C10 as claimed: once the manifest has loaded no exception ends the run,
\* and the report that is written has a row for every manifest row.
C10_Claimed ==
    /\ pc # "crashed"
    /\ pc \in {"written", "done"} => Len(report.Summary) = Len(rules)

\* the --input file is missing or has no sheet named Rules
StartupError == ~file.exists \/ ~file.has_rules

\* C11: a startup error is fatal and comes before all evaluation.  When the
\* manifest file is missing or has no Rules sheet, load_rules raises and the
\* run ends there: no rule is loaded, no evaluator is invoked, no query is
\* issued, no report is written and no summary is printed.
C11_StartupErrorIsFatal ==
    StartupError
    => /\ pc \in {"start", "aborted"}
       /\ rules = <<>>
       /\ lookups = <<>>
       /\ sql_calls = <<>>
       /\ summary_rows = <<>> /\ breach_rows = <<>>
       /\ report = None
       /\ printed = None

\* load_rules raised on a file that exists but has no Rules sheet
C11_Witness == pc = "aborted" /\ file.exists /\ ~file.has_rules

\* the rows of a log (registry lookups, queries) never go back
InRowOrder(log) == \A k, l \in DOMAIN log : k < l => log[k].row <= log[l].row

\* C12: rules are evaluated in manifest order and give one summary row each.
\* The i-th summary row carries the rule_id of the i-th manifest row, there
\* are as many summary rows as manifest rows once run_rules has returned
\* (rows that repeat a rule_id included), and every registry lookup and every
\* query of a row comes after those of the rows before it and before the
\* next row is begun.
C12_ManifestOrder ==
    /\ pc = "running" => Len(summary_rows) = idx - 1
    /\ pc \in {"written", "done"}
          => /\ Len(summary_rows) = Len(file.rows)
             /\ Len(report.Summary) = Len(file.rows)
    /\ \A i \in Processed : summary_rows[i].rule_id = PyStrip(PyStr(file.rows[i].rule_id))
    /\ InRowOrder(lookups) /\ InRowOrder(sql_calls)
    /\ \A k, l \in DOMAIN lookups : k < l => lookups[k].row < lookups[l].row
    /\ \A k \in DOMAIN lookups : lookups[k].row \in Processed
    /\ \A k \in DOMAIN sql_calls : sql_calls[k].row \in Processed

\* a run that evaluated the same rule_id in two manifest rows, each issuing
\* its queries, and wrote both rows
C12_Witness ==
    /\ pc = "done"
    /\ \E i, j \in Processed :
          /\ i < j
          /\ summary_rows[i].rule_id = summary_rows[j].rule_id
          /\ \E k \in DOMAIN sql_calls : sql_calls[k].row = i
          /\ \E k \in DOMAIN sql_calls : sql_calls[k].row = j
    /\ Len(report.Summary) = Len(file.rows)

\* the registry was consulted for row i
Dispatched(i) == \E k \in DOMAIN lookups : lookups[k].row = i

\* C13: the enabled flag is a case-insensitive TRUE/FALSE that defaults to
\* TRUE.  A row whose enabled cell is a casing of TRUE, is empty, or whose
\* sheet has no enabled column is dispatched to the registry and is not
\* SKIPPED; a row whose enabled cell is a casing of FALSE is recorded as
\* SKIPPED and is not dispatched.
C13_EnabledFlag ==
    \A i \in Processed :
        /\ FlagOn(i) => Dispatched(i) /\ summary_rows[i].status # "SKIPPED"
        /\ FlagOff(i) => ~Dispatched(i) /\ summary_rows[i].status = "SKIPPED"

\* a row with an empty enabled cell was dispatched and judged
C13_Witness ==
    \E i \in Processed :
        /\ "enabled" \in DOMAIN file.rows[i]
        /\ file.rows[i].enabled = NaN
        /\ Dispatched(i)
        /\ summary_rows[i].status \in {"PASS", "FAIL"}

\* the threshold argument an override cell stands for
Given(cell) ==
    IF cell \in NumericOverrides THEN F(Spelled(cell))
    ELSE IF cell = NanOverride THEN NaN
    ELSE Absent

\* the result of manifest row i taken by itself: from the row, the position
\* snapshot and the way the store answered its queries
ResultAlone(i) ==
    IF RuleId(rules[i]) \in DOMAIN RULE_REGISTRY
    THEN Invoke(RULE_REGISTRY[RuleId(rules[i])],
                [table |-> table, failAt |-> seen[i].failAt, tie |-> seen[i].tie],
                fund_id, Given(file.rows[i].threshold_override)).result
    ELSE Unregistered(RuleId(rules[i]))

\* the breach rows before those of row i
BreachOffset(i) == TotalBreaches(SubSeq(summary_rows, 1, i - 1))

\* the breach rows of row i
BreachesOf(i) ==
    SubSeq(breach_rows, BreachOffset(i) + 1, BreachOffset(i) + summary_rows[i].breach_count)

\* C14: evaluations share no mutable state.  The summary row and the breach
\* rows of a manifest row are those the row gives by itself on the position
\* snapshot, whatever rows come before or after it and whatever their
\* outcomes; every evaluation met the same snapshot, which the run leaves
\* as it was.
C14_RowsIndependent ==
    \A i \in Processed :
        /\ seen[i] # NoDb => seen[i].table = table
        /\ IF Enabled(rules[i]) # TRUE_STR
           THEN /\ summary_rows[i] = SkippedRow(rules[i])
                /\ BreachesOf(i) = <<>>
           ELSE /\ summary_rows[i] = SummaryRow(rules[i], ResultAlone(i))
                /\ BreachesOf(i) = BreachRows(rules[i], ResultAlone(i))

\* a rule that failed with breaches by its default threshold, after a row
\* that ran with an override and listed breaches of its own
C14_Witness ==
    /\ Len(summary_rows) = 2
    /\ file.rows[1].threshold_override \in NumericOverrides
    /\ Answered(1) /\ summary_rows[1].breach_count > 0
    /\ file.rows[2].threshold_override = NaN
    /\ Answered(2)
    /\ summary_rows[2].threshold = F(DefaultThreshold(summary_rows[2].rule_id))
    /\ summary_rows[2].status = "FAIL" /\ summary_rows[2].breach_count > 0

\* the values of a sequence of breach rows never rise
NonIncreasing(rows) ==
    \A k \in 1 .. Len(rows) - 1 : rows[k].value >= rows[k + 1].value

\* C15: the breach list of a FAIL result of a max-type rule that enumerates
\* positions (R001, R005, R008, R009, R010, R012) is ordered by value, largest
\* first: of two adjacent breach records the earlier value is greater than
\* or equal to the later one.
C15_BreachesDescending ==
    \A i \in Processed :
        /\ FlagOn(i)
        /\ summary_rows[i].rule_id \in MaxSumRules
        /\ summary_rows[i].status = "FAIL"
        => /\ Len(BreachesOf(i)) = summary_rows[i].breach_count
           /\ NonIncreasing(BreachesOf(i))

\* R012 failed and listed the four positions of the fund
C15_Witness ==
    \E i \in Processed :
        /\ summary_rows[i].rule_id = R012
        /\ summary_rows[i].status = "FAIL"
        /\ summary_rows[i].breach_count = 4
        /\ \A k \in 1 .. 3 : BreachesOf(i)[k].value > BreachesOf(i)[k + 1].value

MaxPctNavRules == {R001, R005, R008, R009, R010}

RECURSIVE SumValues(_)
SumValues(rows) == IF rows = <<>> THEN 0 ELSE Head(rows).value + SumValues(Tail(rows))

\* the breach records of row i, as identifier and value
BreachRecords(i) ==
    {[identifier |-> BreachesOf(i)[k].identifier, value |-> BreachesOf(i)[k].value] :
        k \in DOMAIN BreachesOf(i)}

\* what the positions S give when each is listed once
Listed(S) == {[identifier |-> p.isin, value |-> p.weight_pct] : p \in S}

\* m is x rounded to four decimals
RoundedTo4(m, x) ==
    /\ m % 10 = 0
    /\ 2 * (m - x) <= 10 /\ 2 * (x - m) <= 10

\* x is at most the threshold th; no number is at most NaN
AtMost(x, th) == IsFloat(th) /\ x <= th.v

\* C16 as claimed: a Max-percentage-of-NAV rule passes iff the weight sum of
\* the fund's matching positions is at most the threshold, and on FAIL the
\* breach list has one record per matching position of the fund and no
\* other, so that the breach values sum to the reported metric.
C16_Claimed ==
    \A i \in Processed :
        FlagOn(i) /\ summary_rows[i].rule_id \in MaxPctNavRules /\ Answered(i)
        => LET id == summary_rows[i].rule_id
           IN  /\ summary_rows[i].status = "PASS"
                     <=> AtMost(Total(Matching(id)), summary_rows[i].threshold)
               /\ summary_rows[i].status = "FAIL"
                     => /\ BreachRecords(i) = Listed(Matching(id))
                        /\ summary_rows[i].breach_count = Cardinality(Matching(id))
                        /\ SumValues(BreachesOf(i)) = summary_rows[i].metric_value.v

\* C16, amended: a Max-percentage-of-NAV rule passes iff the weight sum of
\* the fund's matching positions is at most the threshold; the reported
\* metric is that sum rounded to four decimals; on FAIL the breach list has
\* one record per matching position of the fund and no other, with the
\* weights as stored, so that the breach values sum to the metric before
\* rounding.
C16_MaxPctNav ==
    \A i \in Processed :
        FlagOn(i) /\ summary_rows[i].rule_id \in MaxPctNavRules /\ Answered(i)
        => LET id == summary_rows[i].rule_id
           IN  /\ summary_rows[i].status = "PASS"
                     <=> AtMost(Total(Matching(id)), summary_rows[i].threshold)
               /\ RoundedTo4(summary_rows[i].metric_value.v, Total(Matching(id)))
               /\ summary_rows[i].status = "FAIL"
                     => /\ BreachRecords(i) = Listed(Matching(id))
                        /\ summary_rows[i].breach_count = Cardinality(Matching(id))
                        /\ SumValues(BreachesOf(i)) = Total(Matching(id))
               /\ summary_rows[i].status = "PASS" => summary_rows[i].breach_count = 0

\* R008 failed and listed the two Review positions of the fund, from a table
\* that also holds a position of another status and one of another fund
C16_Witness ==
    \E i \in Processed :
        /\ Answered(i)
        /\ summary_rows[i].rule_id = R008
        /\ summary_rows[i].status = "FAIL"
        /\ summary_rows[i].breach_count = 2
        /\ Holdings \ Matching(R008) # {}
        /\ table \ Holdings # {}

ConcentrationRules == {R003, R004, R007}

\* the dimension a group concentration rule groups by
Dimension(id) == IF id = R003 THEN "country" ELSE "sector"

\* x is strictly above the threshold th; no number is above NaN
Above(x, th) == IsFloat(th) /\ x > th.v

\* the groups (for R007 the positions) whose weight is strictly above th,
\* each listed once with its weight
Exceeders(id, th) ==
    IF id = R007
    THEN Listed({p \in Holdings : Above(p.weight_pct, th)})
    ELSE {[identifier |-> g,
           value |-> Total({q \in Holdings : GroupKey(q, Dimension(id)) = g})] :
             g \in {h \in {GroupKey(p, Dimension(id)) : p \in Holdings} :
                      Above(Total({q \in Holdings : GroupKey(q, Dimension(id)) = h}), th)}}

\* C17 as claimed: on a fund with at least one position R003, R004 and R007
\* pass iff the largest group sum (the largest position weight) is at most
\* the threshold, the reported metric is that maximum, and on FAIL the
\* breach list is exactly the groups (positions) strictly above the
\* threshold.
C17_Claimed ==
    \A i \in Processed :
        /\ FlagOn(i) /\ summary_rows[i].rule_id \in ConcentrationRules
        /\ Answered(i) /\ Holdings # {}
        => LET id == summary_rows[i].rule_id
               th == summary_rows[i].threshold
           IN  /\ summary_rows[i].status = "PASS" <=> AtMost(Measured(id), th)
               /\ summary_rows[i].metric_value.v = Measured(id)
               /\ summary_rows[i].status = "FAIL"
                     => /\ BreachRecords(i) = Exceeders(id, th)
                        /\ summary_rows[i].breach_count = Cardinality(Exceeders(id, th))

\* C17, amended: on a fund with at least one position R003, R004 and R007
\* pass iff the largest group sum (the largest position weight) is at most
\* the threshold, the reported metric is that maximum rounded to four
\* decimals, and on FAIL the breach list is exactly the groups (positions)
\* strictly above the threshold, each once with its unrounded weight.
C17_Concentration ==
    \A i \in Processed :
        /\ FlagOn(i) /\ summary_rows[i].rule_id \in ConcentrationRules
        /\ Answered(i) /\ Holdings # {}
        => LET id == summary_rows[i].rule_id
               th == summary_rows[i].threshold
           IN  /\ summary_rows[i].status = "PASS" <=> AtMost(Measured(id), th)
               /\ RoundedTo4(summary_rows[i].metric_value.v, Measured(id))
               /\ summary_rows[i].status = "FAIL"
                     => /\ BreachRecords(i) = Exceeders(id, th)
                        /\ summary_rows[i].breach_count = Cardinality(Exceeders(id, th))
               /\ summary_rows[i].status = "PASS" => summary_rows[i].breach_count = 0

\* R007 failed against a threshold that one position meets exactly: it
\* listed the positions above it, more than one, and not the one at it
C17_Witness ==
    \E i \in Processed :
        /\ Answered(i)
        /\ summary_rows[i].rule_id = R007
        /\ summary_rows[i].status = "FAIL"
        /\ summary_rows[i].breach_count >= 2
        /\ \E p \in Holdings : summary_rows[i].threshold = F(p.weight_pct)
        /\ summary_rows[i].breach_count < Cardinality(Holdings)

\* the smaller of 5 and the number of positions of the fund
TopCount == IF Cardinality(Holdings) < Top5 THEN Cardinality(Holdings) ELSE Top5

\* the records are n positions of the fund, each once with its weight, and
\* no position left out outweighs a listed one
LargestListed(records, n) ==
    /\ records \subseteq Listed(Holdings)
    /\ Cardinality(records) = n
    /\ \A r \in records : \A p \in Holdings :
           [identifier |-> p.isin, value |-> p.weight_pct] \notin records
               => p.weight_pct <= r.value

\* C18 as claimed: the R012 metric is the sum of the min(5, n) largest
\* weights of the fund, the result is PASS iff that sum is at most the
\* threshold, and on FAIL the breach list is min(5, n) records with those
\* weights, whose values sum to the reported metric.
C18_Claimed ==
    \A i \in Processed :
        FlagOn(i) /\ summary_rows[i].rule_id = R012 /\ Answered(i)
        => /\ summary_rows[i].metric_value.v = TopTotal(Top5)
           /\ summary_rows[i].status = "PASS"
                 <=> AtMost(TopTotal(Top5), summary_rows[i].threshold)
           /\ summary_rows[i].status = "FAIL"
                 => /\ summary_rows[i].breach_count = TopCount
                    /\ LargestListed(BreachRecords(i), TopCount)
                    /\ SumValues(BreachesOf(i)) = summary_rows[i].metric_value.v

\* C18, amended: the R012 metric is the sum of the min(5, n) largest weights
\* of the fund rounded to four decimals, the result is PASS iff the sum is
\* at most the threshold, and on FAIL the breach list is min(5, n) records
\* with those weights, whose values sum to the metric before rounding.
C18_Top5 ==
    \A i \in Processed :
        FlagOn(i) /\ summary_rows[i].rule_id = R012 /\ Answered(i)
        => /\ RoundedTo4(summary_rows[i].metric_value.v, TopTotal(Top5))
           /\ summary_rows[i].status = "PASS"
                 <=> AtMost(TopTotal(Top5), summary_rows[i].threshold)
           /\ summary_rows[i].status = "FAIL"
                 => /\ summary_rows[i].breach_count = TopCount
                    /\ LargestListed(BreachRecords(i), TopCount)
                    /\ SumValues(BreachesOf(i)) = TopTotal(Top5)
           /\ summary_rows[i].status = "PASS" => summary_rows[i].breach_count = 0

\* R012 failed on a fund of more than five positions and listed five
C18_Witness ==
    \E i \in Processed :
        /\ Answered(i)
        /\ summary_rows[i].rule_id = R012
        /\ summary_rows[i].status = "FAIL"
        /\ Cardinality(Holdings) > Top5
        /\ summary_rows[i].breach_count = Top5
        /\ Total(Holdings) > TopTotal(Top5)

\* the positions of the fund with compliance_status Restricted
Restricted == {p \in Holdings : p.compliance_status = "Restricted"}

\* C19: R002 passes iff the fund has no Restricted position, whatever the
\* threshold; on FAIL the breach list is exactly the Restricted positions of
\* the fund, each once, and breach_count equals metric_value, the count.
C19_NoRestricted ==
    \A i \in Processed :
        FlagOn(i) /\ summary_rows[i].rule_id = R002 /\ Answered(i)
        => /\ summary_rows[i].status = "PASS" <=> Restricted = {}
           /\ summary_rows[i].metric_value = F(Count(Cardinality(Restricted)))
           /\ summary_rows[i].metric_value = F(Count(summary_rows[i].breach_count))
           /\ summary_rows[i].status = "FAIL"
                 => /\ BreachRecords(i) = Listed(Restricted)
                    /\ Len(BreachesOf(i)) = Cardinality(Restricted)

\* R002 failed under a threshold above the count and listed the two
\* Restricted positions of a fund that holds others too
C19_Witness ==
    \E i \in Processed :
        /\ Answered(i)
        /\ summary_rows[i].rule_id = R002
        /\ summary_rows[i].status = "FAIL"
        /\ summary_rows[i].breach_count = 2
        /\ IsFloat(summary_rows[i].threshold)
        /\ summary_rows[i].threshold.v > Count(2)
        /\ Restricted # Holdings

\* C20: breach rows account exactly for the summary.  There are as many
\* breach rows as the breach_count of the summary rows add up to, which is
\* the total print_summary prints; every breach row carries the rule_id of a
\* summary row with status FAIL; the breach rows of a manifest row stand
\* together, after those of the rows before it, under its rule_id and in the
\* order its evaluator listed them, and a row that did not FAIL has none.
C20_BreachRowsAccount ==
    /\ Len(breach_rows) = TotalBreaches(summary_rows)
    /\ pc = "done" => /\ printed.total_breaches = Len(breach_rows)
                      /\ report.Breaches = breach_rows
    /\ \A k \in DOMAIN breach_rows :
          \E i \in Processed : /\ summary_rows[i].rule_id = breach_rows[k].rule_id
                               /\ summary_rows[i].status = "FAIL"
    /\ \A i \in Processed :
          /\ summary_rows[i].status # "FAIL" => summary_rows[i].breach_count = 0
          /\ summary_rows[i].status = "FAIL"
                => /\ Len(BreachesOf(i)) = Len(ResultAlone(i).breaches)
                   /\ \A k \in DOMAIN BreachesOf(i) :
                         /\ BreachesOf(i)[k].rule_id = summary_rows[i].rule_id
                         /\ BreachesOf(i)[k].identifier = ResultAlone(i).breaches[k].identifier
                         /\ BreachesOf(i)[k].value = ResultAlone(i).breaches[k].value

\* a finished run of two rules of different rule_id that both failed with
\* several breaches, all of them written and counted
C20_Witness ==
    /\ pc = "done"
    /\ Len(summary_rows) = 2
    /\ summary_rows[1].rule_id # summary_rows[2].rule_id
    /\ summary_rows[1].status = "FAIL" /\ summary_rows[1].breach_count >= 2
    /\ summary_rows[2].status = "FAIL" /\ summary_rows[2].breach_count >= 2
    /\ summary_rows[1].breach_count # summary_rows[2].breach_count
    /\ printed.total_breaches = Len(report.Breaches)

\* the threshold th is a number below 0
BelowZero(th) == IsFloat(th) /\ th.v < 0

\* C21: on a fund with no positions R003, R004 and R007 pass with metric 0.0
\* and no breaches whatever threshold they are given, one below 0 or NaN
\* included, since 0 is never compared with the threshold; the rules that
\* compare a weight sum with a maximum (R001, R005, R008, R009, R010, R012)
\* compare 0 with it and fail on the same fund when the threshold is below 0.
C21_EmptyFund ==
    \A i \in Processed :
        FlagOn(i) /\ Answered(i) /\ Holdings = {}
        => /\ summary_rows[i].rule_id \in ConcentrationRules
                 => /\ summary_rows[i].status = "PASS"
                    /\ summary_rows[i].metric_value = F(0)
                    /\ summary_rows[i].breach_count = 0
                    /\ BreachesOf(i) = <<>>
           /\ summary_rows[i].rule_id \in MaxSumRules /\ BelowZero(summary_rows[i].threshold)
                 => /\ summary_rows[i].status = "FAIL"
                    /\ summary_rows[i].metric_value = F(0)

\* R003 passed under an override below 0 on a table that holds no position
\* of the fund
C21_Witness ==
    \E i \in Processed :
        /\ Answered(i)
        /\ Holdings = {}
        /\ summary_rows[i].rule_id = R003
        /\ BelowZero(summary_rows[i].threshold)
        /\ summary_rows[i].status = "PASS"
        /\ summary_rows[i].metric_value = F(0)

====
